---- MODULE Spec2Model ----
\* Attribute validity checks of librustc/hir/check_attr.rs: the #[inline] and
\* #[repr] applicability rules, the conflicting-representation-hints warning,
\* and the visitor that runs them over every item of a crate.
EXTENDS Integers, Sequences, FiniteSets

VARIABLES crate, pc, stack, diags, calls, visits

vars == <<crate, pc, stack, diags, calls, visits>>

\* ---------------------------------------------------------------- bounds

MaxWords == 3
MaxVariants == 2
MaxAttrs == 2
MaxItems == 3

\* ---------------------------------------------------------------- data

\* Option<Name>::None of attr.name() / word.name(): no identifier is empty.
NoName == ""

\* A diagnostic without a secondary label (span_warn!).
NoLabel == ""
NoSpan == <<0, 0>>

Targets == {"Fn", "Struct", "Union", "Enum", "Other"}

ItemKinds == {"Fn", "Struct", "Union", "Enum", "Mod", "Trait"}

VariantKinds == {"Unit", "Tuple", "Struct"}

IntWords == {"i8", "u8", "i16", "u16", "i32", "u32", "i64", "u64", "isize", "usize"}

SeqsUpTo(S, n) == UNION {[1..k -> S] : k \in 0..n}

\* ------------------------------------------------------- the checker's code

from_item(item) ==
    CASE item.kind = "Fn" -> "Fn"
      [] item.kind = "Struct" -> "Struct"
      [] item.kind = "Union" -> "Union"
      [] item.kind = "Enum" -> "Enum"
      [] OTHER -> "Other"

\* struct_span_err!(sess, span, code, message).span_label(label_span, label).emit()
struct_span_err(code, span, message, label_span, label) ==
    [level |-> "error", code |-> code, span |-> span, message |-> message,
     label_span |-> label_span, label |-> label]

\* span_warn!(sess, span, code, message)
span_warn(code, span, message) ==
    [level |-> "warning", code |-> code, span |-> span, message |-> message,
     label_span |-> NoSpan, label |-> NoLabel]

RECURSIVE variants_loop(_, _)
variants_loop(variants, k) ==
    IF k > Len(variants) THEN TRUE
    ELSE IF variants[k] = "Unit" THEN variants_loop(variants, k + 1)
    ELSE FALSE

\* Mutant: an enum without variants is not taken to be C-like.
is_c_like_enum_nonempty(item) ==
    IF item.kind = "Enum"
    THEN Len(item.variants) > 0 /\ variants_loop(item.variants, 1)
    ELSE FALSE

is_c_like_enum(item) ==
    IF item.kind = "Enum" THEN variants_loop(item.variants, 1) ELSE FALSE

\* Mutant: items that are neither functions nor data types are let through.
check_inline_lenient(attr, item, target) ==
    IF target # "Fn" /\ target # "Other"
    THEN <<struct_span_err("E0518", attr.span, "attribute should be applied to function",
                           item.span, "not a function")>>
    ELSE <<>>

check_inline(attr, item, target) ==
    IF target # "Fn"
    THEN <<struct_span_err("E0518", attr.span, "attribute should be applied to function",
                           item.span, "not a function")>>
    ELSE <<>>

\* One arm of the match on the word's name: what it adds to the tally and
\* whether it yields (message, label) or continues.
repr_arm(name, target) ==
    CASE name = "C" ->
           [is_c |-> TRUE, is_simd |-> FALSE, int_reprs |-> 0,
            err |-> target # "Struct" /\ target # "Union" /\ target # "Enum",
            message |-> "attribute should be applied to struct, enum or union",
            label |-> "a struct, enum or union"]
      [] name = "packed" ->
           [is_c |-> FALSE, is_simd |-> FALSE, int_reprs |-> 0,
            err |-> target # "Struct" /\ target # "Union",
            message |-> "attribute should be applied to struct or union",
            label |-> "a struct or union"]
      [] name = "simd" ->
           [is_c |-> FALSE, is_simd |-> TRUE, int_reprs |-> 0,
            err |-> target # "Struct",
            message |-> "attribute should be applied to struct",
            label |-> "a struct"]
      [] name = "align" ->
           [is_c |-> FALSE, is_simd |-> FALSE, int_reprs |-> 0,
            err |-> target # "Struct" /\ target # "Union",
            message |-> "attribute should be applied to struct or union",
            label |-> "a struct or union"]
      [] name \in IntWords ->
           [is_c |-> FALSE, is_simd |-> FALSE, int_reprs |-> 1,
            err |-> target # "Enum",
            message |-> "attribute should be applied to enum",
            label |-> "an enum"]
      [] OTHER ->
           [is_c |-> FALSE, is_simd |-> FALSE, int_reprs |-> 0,
            err |-> FALSE, message |-> "", label |-> ""]

\* Mutant: an error already reported for this attribute is not reported again.
repr_word_once(name, st, attr, item, target) ==
    IF name = NoName THEN st
    ELSE LET arm == repr_arm(name, target)
             e == struct_span_err("E0517", attr.span, arm.message,
                                  item.span, "not " \o arm.label)
         IN [int_reprs |-> st.int_reprs + arm.int_reprs,
             is_c |-> st.is_c \/ arm.is_c,
             is_simd |-> st.is_simd \/ arm.is_simd,
             out |-> IF arm.err /\ \A m \in DOMAIN st.out : st.out[m] # e
                     THEN Append(st.out, e)
                     ELSE st.out]

\* Mutant: a misapplied word is reported and left out of the tally.
repr_word_legal_only(name, st, attr, item, target) ==
    IF name = NoName THEN st
    ELSE LET arm == repr_arm(name, target) IN
         IF arm.err
         THEN [st EXCEPT !.out = Append(st.out,
                                        struct_span_err("E0517", attr.span, arm.message,
                                                        item.span, "not " \o arm.label))]
         ELSE [int_reprs |-> st.int_reprs + arm.int_reprs,
               is_c |-> st.is_c \/ arm.is_c,
               is_simd |-> st.is_simd \/ arm.is_simd,
               out |-> st.out]

\* One iteration of `for word in words`, on the locals and the emitted output.
repr_word(name, st, attr, item, target) ==
    IF name = NoName THEN st
    ELSE LET arm == repr_arm(name, target) IN
         [int_reprs |-> st.int_reprs + arm.int_reprs,
          is_c |-> st.is_c \/ arm.is_c,
          is_simd |-> st.is_simd \/ arm.is_simd,
          out |-> IF arm.err
                  THEN Append(st.out, struct_span_err("E0517", attr.span, arm.message,
                                                      item.span, "not " \o arm.label))
                  ELSE st.out]

RECURSIVE repr_loop(_, _, _, _, _, _)
repr_loop(words, k, st, attr, item, target) ==
    IF k > Len(words) THEN st
    ELSE repr_loop(words, k + 1, repr_word(words[k], st, attr, item, target),
                   attr, item, target)

\* Mutant: C or simd alone is taken for a conflict.
repr_warns_either(st, item) ==
    \/ st.int_reprs > 1
    \/ (st.is_simd \/ st.is_c)
    \/ (st.int_reprs = 1 /\ st.is_c /\ is_c_like_enum(item))

repr_warns(st, item) ==
    \/ st.int_reprs > 1
    \/ (st.is_simd /\ st.is_c)
    \/ (st.int_reprs = 1 /\ st.is_c /\ is_c_like_enum(item))

\* Mutant: the warning is emitted ahead of the words' errors.
check_repr_warn_first(attr, item, target) ==
    IF ~attr.is_list THEN <<>>
    ELSE LET st == repr_loop(attr.words, 1,
                             [int_reprs |-> 0, is_c |-> FALSE, is_simd |-> FALSE,
                              out |-> <<>>],
                             attr, item, target)
         IN IF repr_warns(st, item)
            THEN <<span_warn("E0566", attr.span, "conflicting representation hints")>>
                 \o st.out
            ELSE st.out

check_repr(attr, item, target) ==
    IF ~attr.is_list THEN <<>>
    ELSE LET st == repr_loop(attr.words, 1,
                             [int_reprs |-> 0, is_c |-> FALSE, is_simd |-> FALSE,
                              out |-> <<>>],
                             attr, item, target)
         IN IF repr_warns(st, item)
            THEN Append(st.out, span_warn("E0566", attr.span,
                                          "conflicting representation hints"))
            ELSE st.out

\* Mutant: the attribute's name is matched without regard to case.
check_attribute_nocase(attr, item, target) ==
    IF attr.name = NoName THEN <<>>
    ELSE CASE attr.name \in {"inline", "Inline"} -> check_inline(attr, item, target)
           [] attr.name \in {"repr", "Repr"} -> check_repr(attr, item, target)
           [] OTHER -> <<>>

check_attribute(attr, item, target) ==
    IF attr.name = NoName THEN <<>>
    ELSE CASE attr.name = "inline" -> check_inline(attr, item, target)
           [] attr.name = "repr" -> check_repr(attr, item, target)
           [] OTHER -> <<>>

\* The `for attr in &item.attrs` loop of visit_item: the check_attribute calls
\* it makes, in order, each with what it emitted.
RECURSIVE attrs_loop(_, _, _, _)
attrs_loop(item, target, k, done) ==
    IF k > Len(item.attrs) THEN done
    ELSE attrs_loop(item, target, k + 1,
                    Append(done, [item |-> item.id, idx |-> k, target |-> target,
                                  out |-> check_attribute(item.attrs[k], item, target)]))

\* Mutant: the tally is kept by the visitor, across the attributes of an item.
RECURSIVE attrs_loop_shared(_, _, _, _, _)
attrs_loop_shared(item, target, k, done, tally) ==
    IF k > Len(item.attrs) THEN done
    ELSE LET attr == item.attrs[k]
             is_repr == attr.name = "repr" /\ attr.is_list
             st == repr_loop(attr.words, 1, [tally EXCEPT !.out = <<>>],
                             attr, item, target)
             out == IF ~is_repr THEN check_attribute(attr, item, target)
                    ELSE IF repr_warns(st, item)
                    THEN Append(st.out, span_warn("E0566", attr.span,
                                                  "conflicting representation hints"))
                    ELSE st.out
         IN attrs_loop_shared(item, target, k + 1,
                              Append(done, [item |-> item.id, idx |-> k,
                                            target |-> target, out |-> out]),
                              IF is_repr THEN st ELSE tally)

visit_item_calls_shared(item) ==
    attrs_loop_shared(item, from_item(item), 1, <<>>,
                      [int_reprs |-> 0, is_c |-> FALSE, is_simd |-> FALSE, out |-> <<>>])

visit_item_calls(item) == attrs_loop(item, from_item(item), 1, <<>>)

RECURSIVE Flatten(_)
Flatten(cs) ==
    IF cs = <<>> THEN <<>> ELSE Head(cs).out \o Flatten(Tail(cs))

\* ----------------------------------------------------------- the tree walk

RECURSIVE ChildrenFrom(_, _, _)
ChildrenFrom(c, p, k) ==
    IF k > Len(c) THEN <<>>
    ELSE IF c[k].parent = p THEN <<k>> \o ChildrenFrom(c, p, k + 1)
    ELSE ChildrenFrom(c, p, k + 1)

\* visit::walk_crate: visit_item on each item of the crate's root module.
walk_crate(c) == ChildrenFrom(c, 0, 1)

\* visit::walk_item: visit_item on each item nested in this one.
walk_item(c, i) == ChildrenFrom(c, i, 1)

\* ------------------------------------------------------------- the inputs

Attr(name, is_list, words) == [name |-> name, is_list |-> is_list, words |-> words]

\* An item as the parser hands it over: spans are positions in the source.
MkItem(id, kind, variants, attrs, parent) ==
    [id |-> id, kind |-> kind, variants |-> variants, parent |-> parent,
     span |-> <<id, 0>>,
     attrs |-> [k \in 1..Len(attrs) |->
                  [name |-> attrs[k].name, is_list |-> attrs[k].is_list,
                   words |-> attrs[k].words, span |-> <<id, k>>]]]

NonEnumKinds == ItemKinds \ {"Enum"}

\* Kind and variants of one item: only an enum has variants.
ItemShapes ==
    {[kind |-> k, variants |-> <<>>] : k \in NonEnumKinds}
    \cup {[kind |-> "Enum", variants |-> v] : v \in SeqsUpTo(VariantKinds, MaxVariants)}

AllWords == {"C", "packed", "simd", "align"} \cup IntWords \cup {"weird", "c", NoName}

CoreWords == {"C", "packed", "simd", "align", "u8", "u16", "weird", NoName}

ExampleLists ==
    {<<"C", "simd", "u8", "u16">>, <<"C", "u8", "u16">>, <<"u8", "weird", "align", "C">>}

WordLists ==
    SeqsUpTo(CoreWords, MaxWords) \cup SeqsUpTo(AllWords, 2) \cup ExampleLists

OtherNames == {"banana", "Inline", "Repr", NoName}

\* One attribute on one item.
SingleAttrs ==
    {Attr("repr", TRUE, w) : w \in WordLists}
    \cup {Attr("repr", FALSE, <<>>)}
    \cup {Attr(n, l, IF l THEN <<"C", "u8", "u16">> ELSE <<>>) :
            n \in OtherNames \cup {"inline"}, l \in BOOLEAN}

AttrPool ==
    {Attr("inline", FALSE, <<>>), Attr("banana", FALSE, <<>>),
     Attr("repr", TRUE, <<"u8">>), Attr("repr", TRUE, <<"u16">>),
     Attr("repr", TRUE, <<"C">>), Attr("repr", TRUE, <<"simd">>)}

\* The items a tree is built from.
TreeShapes ==
    {[kind |-> "Mod", variants |-> <<>>, attrs |-> <<Attr("inline", FALSE, <<>>)>>],
     [kind |-> "Mod", variants |-> <<>>, attrs |-> <<>>],
     [kind |-> "Fn", variants |-> <<>>,
      attrs |-> <<Attr("inline", FALSE, <<>>), Attr("repr", TRUE, <<"C">>)>>],
     [kind |-> "Struct", variants |-> <<>>,
      attrs |-> <<Attr("repr", TRUE, <<"C", "simd">>)>>],
     [kind |-> "Enum", variants |-> <<"Unit">>,
      attrs |-> <<Attr("repr", TRUE, <<"u8">>), Attr("repr", TRUE, <<"u16">>)>>],
     [kind |-> "Union", variants |-> <<>>,
      attrs |-> <<Attr("repr", TRUE, <<"u8", "u16">>), Attr("banana", FALSE, <<>>)>>]}

\* Items nest in modules and in function bodies.
Containers == {"Mod", "Fn"}

ParentsOk(shapes, parents) ==
    \A i \in 1..Len(shapes) :
        IF parents[i] = 0 THEN TRUE
        ELSE parents[i] < i /\ shapes[parents[i]].kind \in Containers

\* A crate of up to MaxItems items, each nested in the root or in an earlier one.
IsTree ==
    \E n \in 0..MaxItems :
      \E sh \in [1..n -> TreeShapes] :
        \E pa \in [1..n -> 0..(n - 1)] :
          /\ ParentsOk(sh, pa)
          /\ crate = [i \in 1..n |->
                        MkItem(i, sh[i].kind, sh[i].variants, sh[i].attrs, pa[i])]

\* A crate of one item with one attribute.
IsOneAttrCrate ==
    \E sh \in ItemShapes :
      \E a \in SingleAttrs :
        crate = <<MkItem(1, sh.kind, sh.variants, <<a>>, 0)>>

\* A crate of one item with up to MaxAttrs attributes.
IsOneItemCrate ==
    \E sh \in ItemShapes :
      \E as \in SeqsUpTo(AttrPool, MaxAttrs) :
        crate = <<MkItem(1, sh.kind, sh.variants, as, 0)>>

\* ------------------------------------------------------------ the program

InitState ==
    /\ pc = "start"
    /\ stack = <<>>
    /\ diags = <<>>
    /\ calls = <<>>
    /\ visits = [i \in 1..Len(crate) |-> 0]

InitTree == IsTree /\ InitState

Init == (IsTree \/ IsOneAttrCrate \/ IsOneItemCrate) /\ InitState

\* check_crate: walk_crate starts on the root module's items.
CheckCrate ==
    /\ pc = "start"
    /\ stack' = walk_crate(crate)
    /\ pc' = IF walk_crate(crate) = <<>> THEN "done" ELSE "walk"
    /\ UNCHANGED <<crate, diags, calls, visits>>

\* Mutant: visit_item checks the item's attributes and does not walk into it.
VisitItem_NoWalk ==
    /\ pc = "walk"
    /\ stack # <<>>
    /\ LET i == Head(stack)
           cs == visit_item_calls(crate[i])
           rest == Tail(stack)
       IN /\ calls' = calls \o cs
          /\ diags' = diags \o Flatten(cs)
          /\ visits' = [visits EXCEPT ![i] = @ + 1]
          /\ stack' = rest
          /\ pc' = IF rest = <<>> THEN "done" ELSE "walk"
    /\ UNCHANGED crate

\* visit_item on the next item of the walk: its attributes are checked, then
\* walk_item descends into the items nested in it, before its later siblings.
VisitItem ==
    /\ pc = "walk"
    /\ stack # <<>>
    /\ LET i == Head(stack)
           cs == visit_item_calls(crate[i])
           rest == walk_item(crate, i) \o Tail(stack)
       IN /\ calls' = calls \o cs
          /\ diags' = diags \o Flatten(cs)
          /\ visits' = [visits EXCEPT ![i] = @ + 1]
          /\ stack' = rest
          /\ pc' = IF rest = <<>> THEN "done" ELSE "walk"
    /\ UNCHANGED crate

Next == CheckCrate \/ VisitItem

Spec == Init /\ [][Next]_vars

\* check_crate is one synchronous call: it keeps running until it returns.
LiveSpec == InitTree /\ [][Next]_vars /\ WF_vars(Next)

\* ------------------------------------------------- what the rules require

CallItem(c) == crate[c.item]

CallAttr(c) == crate[c.item].attrs[c.idx]

IsReprCall(c) == CallAttr(c).name = "repr" /\ CallAttr(c).is_list

Errors(out) == SelectSeq(out, LAMBDA d : d.level = "error")

Warnings(out) == SelectSeq(out, LAMBDA d : d.level = "warning")

\* The legality table: the targets a repr word may be applied to.
LegalTargets(w) ==
    CASE w = "C" -> {"Struct", "Union", "Enum"}
      [] w = "packed" -> {"Struct", "Union"}
      [] w = "simd" -> {"Struct"}
      [] w = "align" -> {"Struct", "Union"}
      [] w \in IntWords -> {"Enum"}
      [] OTHER -> Targets

RowMessage(w) ==
    CASE w = "C" -> "attribute should be applied to struct, enum or union"
      [] w \in {"packed", "align"} -> "attribute should be applied to struct or union"
      [] w = "simd" -> "attribute should be applied to struct"
      [] OTHER -> "attribute should be applied to enum"

RowLabel(w) ==
    CASE w = "C" -> "not a struct, enum or union"
      [] w \in {"packed", "align"} -> "not a struct or union"
      [] w = "simd" -> "not a struct"
      [] OTHER -> "not an enum"

Recognized(w) == w \in {"C", "packed", "simd", "align"} \cup IntWords

Positions(words, S) == {k \in DOMAIN words : words[k] \in S}

IntCount(words) == Cardinality(Positions(words, IntWords))

HasWord(words, w) == Positions(words, {w}) # {}

AllUnit(item) ==
    item.kind = "Enum" /\ \A k \in DOMAIN item.variants : item.variants[k] = "Unit"

\* The errors the table asks for, one per offending position, in word order.
RECURSIVE TableErrors(_, _, _, _)
TableErrors(words, target, span, item_span) ==
    IF words = <<>> THEN <<>>
    ELSE (IF target \notin LegalTargets(Head(words))
          THEN <<[level |-> "error", code |-> "E0517", span |-> span,
                  message |-> RowMessage(Head(words)),
                  label_span |-> item_span, label |-> RowLabel(Head(words))]>>
          ELSE <<>>)
         \o TableErrors(Tail(words), target, span, item_span)

Conflicting(words, item) ==
    \/ IntCount(words) > 1
    \/ (HasWord(words, "C") /\ HasWord(words, "simd"))
    \/ (IntCount(words) = 1 /\ HasWord(words, "C") /\ AllUnit(item))

ConflictWarning(span) ==
    [level |-> "warning", code |-> "E0566", span |-> span,
     message |-> "conflicting representation hints",
     label_span |-> NoSpan, label |-> NoLabel]

InlineError(span, item_span) ==
    [level |-> "error", code |-> "E0518", span |-> span,
     message |-> "attribute should be applied to function",
     label_span |-> item_span, label |-> "not a function"]

\* ------------------------------------------------------------------ C1

InlineAttrs(item) == {k \in DOMAIN item.attrs : item.attrs[k].name = "inline"}

InlineErrorsOn(item) ==
    {n \in DOMAIN diags : diags[n].code = "E0518" /\ diags[n].label_span = item.span}

\* C1: an "inline" attribute on an item that is not a function emits exactly
\* one error "attribute should be applied to function" labelled "not a
\* function" on the item's span, on a function it emits nothing, and k inline
\* attributes on one non-function item give k such errors.
C1_InlineRule ==
    /\ \A n \in DOMAIN calls :
         CallAttr(calls[n]).name = "inline" =>
           calls[n].out =
             IF CallItem(calls[n]).kind = "Fn" THEN <<>>
             ELSE <<InlineError(CallAttr(calls[n]).span, CallItem(calls[n]).span)>>
    /\ \A i \in DOMAIN crate :
         visits[i] = 1 =>
           Cardinality(InlineErrorsOn(crate[i])) =
             IF crate[i].kind = "Fn" THEN 0 ELSE Cardinality(InlineAttrs(crate[i]))

C1_Witness ==
    /\ pc = "done"
    /\ \E i \in DOMAIN crate :
         /\ crate[i].kind = "Struct"
         /\ Cardinality(InlineAttrs(crate[i])) = 2
         /\ Cardinality(InlineErrorsOn(crate[i])) = 2

\* ------------------------------------------------------------------ C2

\* C2: for a repr attribute with a word list, the errors emitted are exactly
\* one per position whose word is in the legality table and whose legal
\* targets exclude the item's target, repeats included, each with its row's
\* message; a word applied to a legal target emits nothing.
C2_ReprWordLegality ==
    \A n \in DOMAIN calls :
      IsReprCall(calls[n]) =>
        /\ Errors(calls[n].out) =
             TableErrors(CallAttr(calls[n]).words, calls[n].target,
                         CallAttr(calls[n]).span, CallItem(calls[n]).span)
        /\ Len(Errors(calls[n].out)) =
             Cardinality({k \in DOMAIN CallAttr(calls[n]).words :
                            /\ Recognized(CallAttr(calls[n]).words[k])
                            /\ calls[n].target \notin
                                 LegalTargets(CallAttr(calls[n]).words[k])})

C2_Witness ==
    \E n \in DOMAIN calls :
      /\ IsReprCall(calls[n])
      /\ calls[n].target = "Enum"
      /\ Len(CallAttr(calls[n]).words) = 3
      /\ CallAttr(calls[n]).words[1] = "packed"
      /\ CallAttr(calls[n]).words[2] = "packed"
      /\ CallAttr(calls[n]).words[3] = "C"
      /\ Len(Errors(calls[n].out)) = 2

\* ------------------------------------------------------------------ C3

\* C3: a repr attribute with a word list emits exactly one "conflicting
\* representation hints" warning when more than one integer-width word occurs
\* (repeats counted), or C and simd both occur, or exactly one integer-width
\* word and C occur on a C-like enum; otherwise none; never more than one.
C3_ConsistencyWarning ==
    \A n \in DOMAIN calls :
      IsReprCall(calls[n]) =>
        Warnings(calls[n].out) =
          IF Conflicting(CallAttr(calls[n]).words, CallItem(calls[n]))
          THEN <<ConflictWarning(CallAttr(calls[n]).span)>>
          ELSE <<>>

C3_Witness ==
    \E n \in DOMAIN calls :
      /\ IsReprCall(calls[n])
      /\ CallAttr(calls[n]).words = <<"C", "simd", "u8", "u16">>
      /\ AllUnit(CallItem(calls[n]))
      /\ Len(Warnings(calls[n].out)) = 1

\* ------------------------------------------------------------------ C4

\* C4: the tally does not depend on legality: whatever the target, a word
\* list with more than one integer-width word, or with both C and simd, gets
\* its one warning, together with an error for every misapplied word.
C4_TallyIgnoresLegality ==
    \A n \in DOMAIN calls :
      (/\ IsReprCall(calls[n])
       /\ \/ IntCount(CallAttr(calls[n]).words) > 1
          \/ (HasWord(CallAttr(calls[n]).words, "C")
              /\ HasWord(CallAttr(calls[n]).words, "simd")))
      => /\ Len(Warnings(calls[n].out)) = 1
         /\ \A k \in DOMAIN CallAttr(calls[n]).words :
              LET w == CallAttr(calls[n]).words[k] IN
              (w \in IntWords \cup {"C", "simd"}
               /\ calls[n].target \notin LegalTargets(w))
              => \E m \in DOMAIN calls[n].out :
                   /\ calls[n].out[m].level = "error"
                   /\ calls[n].out[m].message = RowMessage(w)

C4_Witness ==
    \E n \in DOMAIN calls :
      /\ IsReprCall(calls[n])
      /\ calls[n].target = "Fn"
      /\ CallAttr(calls[n]).words = <<"u8", "u16">>
      /\ Len(Errors(calls[n].out)) = 2
      /\ Len(Warnings(calls[n].out)) = 1

\* ------------------------------------------------------------------ C5

ReprLists(item) ==
    {k \in DOMAIN item.attrs : item.attrs[k].name = "repr" /\ item.attrs[k].is_list}

RECURSIVE ReprWordsFrom(_, _)
ReprWordsFrom(item, k) ==
    IF k > Len(item.attrs) THEN <<>>
    ELSE (IF k \in ReprLists(item) THEN item.attrs[k].words ELSE <<>>)
         \o ReprWordsFrom(item, k + 1)

\* All the repr hints of an item, over its repr attributes in source order.
ItemReprWords(item) == ReprWordsFrom(item, 1)

WarningsOn(item) ==
    {n \in DOMAIN diags :
       /\ diags[n].code = "E0566"
       /\ \E k \in DOMAIN item.attrs : diags[n].span = item.attrs[k].span}

\* C5: when the hints of several repr attributes on one item conflict with
\* each other, as #[repr(u8)] with #[repr(u16)] does, the checker emits a
\* "conflicting representation hints" warning for that item.
C5_ConflictAcrossAttributes ==
    \A i \in DOMAIN crate :
      (/\ visits[i] = 1
       /\ Cardinality(ReprLists(crate[i])) > 1
       /\ Conflicting(ItemReprWords(crate[i]), crate[i]))
      => WarningsOn(crate[i]) # {}

\* ------------------------------------------------------------------ C6

\* The item with only its k-th attribute, where it stands in the source.
OnlyAttr(item, k) == [item EXCEPT !.attrs = <<item.attrs[k]>>]

\* C6: what one attribute emits is what it emits on an item carrying that
\* attribute alone: the tally starts afresh for every repr attribute, and
\* neither the attributes checked before it nor the items visited before its
\* own have any part in it.
C6_TallyPerAttribute ==
    \A n \in DOMAIN calls :
      /\ calls[n].out = Flatten(visit_item_calls(OnlyAttr(CallItem(calls[n]), calls[n].idx)))
      /\ IsReprCall(calls[n]) =>
           Warnings(calls[n].out) =
             IF Conflicting(CallAttr(calls[n]).words, CallItem(calls[n]))
             THEN <<ConflictWarning(CallAttr(calls[n]).span)>>
             ELSE <<>>

C6_Witness ==
    \E n \in DOMAIN calls :
      /\ calls[n].idx = 2
      /\ calls[n].target = "Enum"
      /\ AllUnit(CallItem(calls[n]))
      /\ CallItem(calls[n]).attrs[1].name = "repr"
      /\ CallItem(calls[n]).attrs[1].words = <<"u8">>
      /\ CallAttr(calls[n]).name = "repr"
      /\ CallAttr(calls[n]).words = <<"C">>
      /\ calls[n].out = <<>>

\* ------------------------------------------------------------------ C7

\* The words of a list that are in the given set, in order.
Keep(words, S) == SelectSeq(words, LAMBDA w : w \in S)

WithWords(attr, words) == [attr EXCEPT !.words = words]

\* C7: an attribute named neither "inline" nor "repr" (matched exactly), or
\* without a name, emits nothing on any target; in a repr attribute the words
\* outside the legality table and the words without a name emit nothing and
\* leave the tally alone, so dropping them changes no diagnostic; dropping
\* packed and align as well changes no warning.
C7_IgnoredInput ==
    \A n \in DOMAIN calls :
      /\ CallAttr(calls[n]).name \notin {"inline", "repr"} => calls[n].out = <<>>
      /\ IsReprCall(calls[n]) =>
           /\ calls[n].out =
                check_repr(WithWords(CallAttr(calls[n]),
                                     Keep(CallAttr(calls[n]).words,
                                          {"C", "packed", "simd", "align"} \cup IntWords)),
                           CallItem(calls[n]), calls[n].target)
           /\ Warnings(calls[n].out) =
                Warnings(check_repr(WithWords(CallAttr(calls[n]),
                                              Keep(CallAttr(calls[n]).words,
                                                   {"C", "simd"} \cup IntWords)),
                                    CallItem(calls[n]), calls[n].target))

C7_Witness ==
    \E n \in DOMAIN calls :
      /\ IsReprCall(calls[n])
      /\ CallAttr(calls[n]).words = <<"u8", "weird", "align", "C">>
      /\ AllUnit(CallItem(calls[n]))
      /\ Len(Errors(calls[n].out)) = 1
      /\ Len(Warnings(calls[n].out)) = 1

\* ------------------------------------------------------------------ C8

TargetOf(kind) == IF kind \in {"Fn", "Struct", "Union", "Enum"} THEN kind ELSE "Other"

CallsFor(i, k) == {n \in DOMAIN calls : calls[n].item = i /\ calls[n].idx = k}

Complete ==
    \A i \in DOMAIN crate :
      /\ visits[i] = 1
      /\ \A k \in DOMAIN crate[i].attrs :
           /\ Cardinality(CallsFor(i, k)) = 1
           /\ \A n \in CallsFor(i, k) : calls[n].target = TargetOf(crate[i].kind)

\* C8: check_crate returns on every tree, and by then every item, nested ones
\* included, was visited exactly once and each of its attributes was passed
\* to check_attribute exactly once with the item's target; no item is ever
\* visited twice, and no diagnostic stops the walk.
C8_CompleteTraversal ==
    /\ <>(pc = "done")
    /\ [](pc = "done" => Complete)
    /\ [](\A i \in DOMAIN crate : visits[i] <= 1)
    /\ [](pc # "done" => ENABLED Next)

C8_Witness ==
    /\ pc = "done"
    /\ Complete
    /\ \E i \in DOMAIN crate :
         /\ crate[i].parent # 0
         /\ crate[crate[i].parent].parent # 0
         /\ \E n \in DOMAIN calls :
              calls[n].item = crate[i].parent /\ Errors(calls[n].out) # <<>>
         /\ \E n \in DOMAIN calls : calls[n].item = i /\ calls[n].out # <<>>

\* ------------------------------------------------------------------ C9

\* The items in source order: an item, then the items nested in it, then its
\* later siblings.
RECURSIVE SourceOrder(_, _, _)
SourceOrder(c, p, k) ==
    IF k > Len(c) THEN <<>>
    ELSE IF c[k].parent = p
         THEN <<k>> \o SourceOrder(c, k, 1) \o SourceOrder(c, p, k + 1)
         ELSE SourceOrder(c, p, k + 1)

\* What one attribute is to emit: the words' errors in word order, then the
\* warning.
AttrDiags(attr, item) ==
    IF attr.name = "inline"
    THEN (IF item.kind = "Fn" THEN <<>> ELSE <<InlineError(attr.span, item.span)>>)
    ELSE IF attr.name = "repr" /\ attr.is_list
    THEN TableErrors(attr.words, TargetOf(item.kind), attr.span, item.span)
         \o (IF Conflicting(attr.words, item) THEN <<ConflictWarning(attr.span)>>
             ELSE <<>>)
    ELSE <<>>

RECURSIVE ItemDiags(_, _)
ItemDiags(item, k) ==
    IF k > Len(item.attrs) THEN <<>>
    ELSE AttrDiags(item.attrs[k], item) \o ItemDiags(item, k + 1)

RECURSIVE DiagsInOrder(_, _)
DiagsInOrder(c, order) ==
    IF order = <<>> THEN <<>>
    ELSE ItemDiags(c[Head(order)], 1) \o DiagsInOrder(c, Tail(order))

IsPrefix(s, t) == Len(s) <= Len(t) /\ SubSeq(t, 1, Len(s)) = s

\* C9: the diagnostics come out in source order: an item's before those of
\* the items nested in it, siblings in order, an earlier attribute's before a
\* later one's, a repr attribute's errors in word order and its warning last;
\* the sequence is fixed by the tree, so a second run gives the same one.
C9_SourceOrder ==
    /\ IsPrefix(diags, DiagsInOrder(crate, SourceOrder(crate, 0, 1)))
    /\ pc = "done" => diags = DiagsInOrder(crate, SourceOrder(crate, 0, 1))

C9_Witness ==
    /\ pc = "done"
    /\ Len(crate) = 3
    /\ crate[2].parent = 0
    /\ crate[3].parent = 1
    /\ crate[2].kind = "Union"
    /\ crate[3].kind = "Fn"
    /\ Len(diags) = 5
    /\ diags[1].span = <<1, 1>>
    /\ diags[2].span = <<3, 2>>
    /\ diags[3].level = "error" /\ diags[3].span = <<2, 1>>
    /\ diags[5].level = "warning" /\ diags[5].span = <<2, 1>>

\* ----------------------------------------------------------------- C10

\* C10: is_c_like_enum holds exactly of the enums all of whose variants are
\* unit variants, the enum without variants among them, and of no other item;
\* so repr(C, u8) warns on an empty enum and not on an enum with a tuple or
\* struct variant.
C10_CLikeEnum ==
    /\ \A i \in DOMAIN crate : is_c_like_enum(crate[i]) = AllUnit(crate[i])
    /\ \A n \in DOMAIN calls :
         (/\ IsReprCall(calls[n])
          /\ IntCount(CallAttr(calls[n]).words) = 1
          /\ HasWord(CallAttr(calls[n]).words, "C")
          /\ ~HasWord(CallAttr(calls[n]).words, "simd"))
         => Len(Warnings(calls[n].out)) =
              IF AllUnit(CallItem(calls[n])) THEN 1 ELSE 0

C10_Witness ==
    \E n \in DOMAIN calls :
      /\ IsReprCall(calls[n])
      /\ CallItem(calls[n]).kind = "Enum"
      /\ CallItem(calls[n]).variants = <<>>
      /\ CallAttr(calls[n]).words = <<"C", "u8">>
      /\ Len(Warnings(calls[n].out)) = 1

====
